---- MODULE Spec2Model ----
(***************************************************************************)
(* pycmr: the query builder of src/pycmr/queries.py (Query, GranuleQuery). *)
(* A builder holds two insertion-ordered dicts, params and options; every  *)
(* setter validates its input and writes into them; query() checks the     *)
(* builder's state, formats both dicts into a URL and issues one GET.      *)
(*                                                                         *)
(* Python strings are sequences of one-character strings, so that          *)
(* formatting, percent-encoding, parsing and string comparison are         *)
(* computed character by character as Python computes them.                *)
(***************************************************************************)
EXTENDS Integers, Sequences, FiniteSets, TLC

(***************************************************************************)
(* Bounds of the model                                                     *)
(***************************************************************************)

\* calls made on one builder, per specification
MaxCalls == 2
MaxTemporalCalls == 2
MaxBuildCalls == 4
MaxPolygonCalls == 2
MaxCloudCalls == 2
MaxBoolCalls == 2
\* pairs in a list of coordinates
MaxRing == 5
\* the largest cloud cover bound tried
MaxCover == 10

VARIABLES params, options, call, ret, requests, ncalls, temporalArgs, firstSet

vars == <<params, options, call, ret, requests, ncalls, temporalArgs, firstSet>>

(***************************************************************************)
(* Characters and strings                                                  *)
(***************************************************************************)

\* The printable ASCII characters, in runs of consecutive code points.
Punct32 == <<" ","!","\"","#","$","%","&","'","(",")","*","+",",","-",".","/">>
Punct58 == <<":",";","<","=",">","?","@">>
Punct91 == <<"[","\\","]","^","_">>
Punct123 == <<"{","|","}","~">>
UpperChars == <<"A","B","C","D","E","F","G","H","I","J","K","L","M","N","O","P","Q",
                "R","S","T","U","V","W","X","Y","Z">>
LowerChars == <<"a","b","c","d","e","f","g","h","i","j","k","l","m","n","o","p","q",
                "r","s","t","u","v","w","x","y","z">>
DigitChars == <<"0","1","2","3","4","5","6","7","8","9">>

In(c, run) == \E i \in 1..Len(run) : run[i] = c
IndexOf(c, run) == CHOOSE i \in 1..Len(run) : run[i] = c

\* ord(c)
Ord(c) ==
  CASE In(c, Punct32) -> 31 + IndexOf(c, Punct32)
    [] In(c, DigitChars) -> 47 + IndexOf(c, DigitChars)
    [] In(c, Punct58) -> 57 + IndexOf(c, Punct58)
    [] In(c, UpperChars) -> 64 + IndexOf(c, UpperChars)
    [] In(c, Punct91) -> 90 + IndexOf(c, Punct91)
    [] In(c, LowerChars) -> 96 + IndexOf(c, LowerChars)
    [] In(c, Punct123) -> 122 + IndexOf(c, Punct123)

DigitSet == {"0","1","2","3","4","5","6","7","8","9"}

IsDigit(c) == c \in DigitSet

\* int(c) of one digit character
DigitValue ==
  ("0" :> 0) @@ ("1" :> 1) @@ ("2" :> 2) @@ ("3" :> 3) @@ ("4" :> 4)
    @@ ("5" :> 5) @@ ("6" :> 6) @@ ("7" :> 7) @@ ("8" :> 8) @@ ("9" :> 9)

DigitVal(c) == DigitValue[c]

\* int(s) of a non-empty string of digits
RECURSIVE DigitsVal(_)
DigitsVal(s) ==
  IF Len(s) = 0 THEN 0
  ELSE 10 * DigitsVal(SubSeq(s, 1, Len(s) - 1)) + DigitVal(s[Len(s)])

\* str(n) of a natural number
RECURSIVE NatStr(_)
NatStr(n) ==
  IF n < 10 THEN <<DigitChars[n + 1]>>
  ELSE NatStr(n \div 10) \o <<DigitChars[(n % 10) + 1]>>

\* str(n) of an int
IntStr(n) == IF n < 0 THEN <<"-">> \o NatStr(-n) ELSE NatStr(n)

\* n zero-padded to at least w digits (strftime's %m, %d, %H, %M, %S, %Y)
RECURSIVE ZeroPad(_, _)
ZeroPad(s, w) == IF Len(s) >= w THEN s ELSE ZeroPad(<<"0">> \o s, w)

\* sep.join(strs)
RECURSIVE Join(_, _)
Join(sep, strs) ==
  IF Len(strs) = 0 THEN <<>>
  ELSE IF Len(strs) = 1 THEN strs[1]
  ELSE strs[1] \o sep \o Join(sep, Tail(strs))

\* a > b on Python strings: by code point, a proper prefix being smaller
RECURSIVE StrGT(_, _)
StrGT(a, b) ==
  IF Len(a) = 0 THEN FALSE
  ELSE IF Len(b) = 0 THEN TRUE
  ELSE IF a[1] = b[1] THEN StrGT(Tail(a), Tail(b))
  ELSE Ord(a[1]) > Ord(b[1])

\* c.lower()
LowerChar(c) == IF In(c, UpperChars) THEN LowerChars[IndexOf(c, UpperChars)] ELSE c

\* s.lower()
Lower(s) == [i \in 1..Len(s) |-> LowerChar(s[i])]

(***************************************************************************)
(* Python values, tagged by type                                           *)
(***************************************************************************)

PyNone == [t |-> "None"]
PyBool(b) == [t |-> "bool", b |-> b]
PyInt(n) == [t |-> "int", n |-> n]
\* a float with one decimal place, held in tenths
PyFloat(tenths) == [t |-> "float", x |-> tenths]
PyStr(s) == [t |-> "str", s |-> s]
PyList(l) == [t |-> "list", l |-> l]
PyDatetime(Y, M, D, h, m, s) ==
  [t |-> "datetime", year |-> Y, month |-> M, day |-> D,
   hour |-> h, minute |-> m, second |-> s]

\* bool(v): what `if v` and `not v` test
Truthy(v) ==
  CASE v.t = "None" -> FALSE
    [] v.t = "bool" -> v.b
    [] v.t = "int" -> v.n # 0
    [] v.t = "float" -> v.x # 0
    [] v.t = "str" -> Len(v.s) > 0
    [] v.t = "list" -> Len(v.l) > 0
    [] v.t = "datetime" -> TRUE

\* isinstance(v, bool)
IsBool(v) == v.t = "bool"

\* isinstance(v, str)
IsStr(v) == v.t = "str"

\* isinstance(v, list)
IsList(v) == v.t = "list"

\* str(x) of a float with one decimal place: repr keeps the ".0"
FloatStr(tenths) ==
  LET a == IF tenths < 0 THEN -tenths ELSE tenths
  IN  (IF tenths < 0 THEN <<"-">> ELSE <<>>)
        \o NatStr(a \div 10) \o <<".">> \o NatStr(a % 10)

\* str(v), which is also what "{}".format(v) inserts
Str(v) ==
  CASE v.t = "None" -> <<"N","o","n","e">>
    [] v.t = "bool" -> IF v.b THEN <<"T","r","u","e">> ELSE <<"F","a","l","s","e">>
    [] v.t = "int" -> IntStr(v.n)
    [] v.t = "float" -> FloatStr(v.x)
    [] v.t = "str" -> v.s

\* the outcome of a call: a returned value or a raised exception
Return(v) == [exc |-> "", msg |-> "", value |-> v]
Raise(e, m) == [exc |-> e, msg |-> m, value |-> ""]
Raised(r) == r.exc # ""

(***************************************************************************)
(* dict: Python's insertion-ordered mapping, a sequence of entries         *)
(***************************************************************************)

Entry(k, v) == [key |-> k, val |-> v]

\* k in d
HasKey(d, k) == \E i \in 1..Len(d) : d[i].key = k

\* d[k]
Get(d, k) == d[CHOOSE i \in 1..Len(d) : d[i].key = k].val

\* DictSet with a key that is set again moved behind the others
DictSet_move_to_end(d, k, v) ==
  Append(SelectSeq(d, LAMBDA e : e.key # k), Entry(k, v))

\* d[k] = v: a new key goes last, a key already there keeps its place
DictSet(d, k, v) ==
  IF HasKey(d, k)
  THEN [i \in 1..Len(d) |-> IF d[i].key = k THEN Entry(k, v) ELSE d[i]]
  ELSE Append(d, Entry(k, v))

\* list(d): the keys in iteration order
Keys(d) == [i \in 1..Len(d) |-> d[i].key]

\* the names of the parameters and of the one option, as the code spells them
k_online_only == <<"o","n","l","i","n","e","_","o","n","l","y">>
k_temporal == <<"t","e","m","p","o","r","a","l">>
k_short_name == <<"s","h","o","r","t","_","n","a","m","e">>
k_version == <<"v","e","r","s","i","o","n">>
k_point == <<"p","o","i","n","t">>
k_polygon == <<"p","o","l","y","g","o","n">>
k_bounding_box == <<"b","o","u","n","d","i","n","g","_","b","o","x">>
k_line == <<"l","i","n","e">>
k_downloadable == <<"d","o","w","n","l","o","a","d","a","b","l","e">>
k_entry_title == <<"e","n","t","r","y","_","t","i","t","l","e">>
k_orbit_number == <<"o","r","b","i","t","_","n","u","m","b","e","r">>
k_day_night_flag == <<"d","a","y","_","n","i","g","h","t","_","f","l","a","g">>
k_cloud_cover == <<"c","l","o","u","d","_","c","o","v","e","r">>
k_instrument == <<"i","n","s","t","r","u","m","e","n","t">>
k_platform == <<"p","l","a","t","f","o","r","m">>
k_granule_ur == <<"g","r","a","n","u","l","e","_","u","r">>
k_exclude_boundary == <<"e","x","c","l","u","d","e","_","b","o","u","n","d","a","r","y">>

\* what a method leaves behind: the two dicts and its outcome
Result(P, O, r) == [params |-> P, options |-> O, ret |-> r]

(***************************************************************************)
(* datetime.strftime and datetime.strptime for iso_8601                    *)
(***************************************************************************)

\* date.strftime("%Y-%m-%dT%H:%M:%SZ"); the years of the model have four digits
strftime(d) ==
  ZeroPad(NatStr(d.year), 4) \o <<"-">> \o ZeroPad(NatStr(d.month), 2) \o <<"-">>
    \o ZeroPad(NatStr(d.day), 2) \o <<"T">> \o ZeroPad(NatStr(d.hour), 2) \o <<":">>
    \o ZeroPad(NatStr(d.minute), 2) \o <<":">> \o ZeroPad(NatStr(d.second), 2) \o <<"Z">>

\* the first index from i on that holds no digit (Len(s) + 1 when none)
RECURSIVE RunEnd(_, _)
RunEnd(s, i) == IF i > Len(s) \/ ~IsDigit(s[i]) THEN i ELSE RunEnd(s, i + 1)

AllDigits(f) == \A i \in 1..Len(f) : IsDigit(f[i])

\* the regular expression strptime compiles for each directive, matched against
\* a whole field f of n characters whose digits read v
DirectiveAccepts(d, f, n, v) ==
  CASE d = "Y" -> AllDigits(f) /\ n = 4
    [] d = "m" -> AllDigits(f) /\ ((n = 2 /\ v \in 1..12) \/ (n = 1 /\ v \in 1..9))
    [] d = "d" -> \/ AllDigits(f) /\ ((n = 2 /\ v \in 1..31) \/ (n = 1 /\ v \in 1..9))
                  \/ n = 2 /\ f[1] = " " /\ IsDigit(f[2]) /\ f[2] # "0"
    [] d = "H" -> AllDigits(f) /\ ((n = 2 /\ v \in 0..23) \/ n = 1)
    [] d = "M" -> AllDigits(f) /\ ((n = 2 /\ v \in 0..59) \/ n = 1)
    [] d = "S" -> AllDigits(f) /\ ((n = 2 /\ v \in 0..61) \/ n = 1)

DirectiveMatches(d, f) == DirectiveAccepts(d, f, Len(f), DigitsVal(f))

IsLeap(y) == y % 4 = 0 /\ (y % 100 # 0 \/ y % 400 = 0)

DaysInMonth(y, m) ==
  IF m = 2 THEN (IF IsLeap(y) THEN 29 ELSE 28)
  ELSE IF m \in {4, 6, 9, 11} THEN 30 ELSE 31

\* the directives of iso_8601 and the literal that follows each
Directives == <<"Y", "m", "d", "H", "M", "S">>
Literals == <<"-", "-", "T", ":", ":", "Z">>

\* re.IGNORECASE: a literal of the format matches in either case
SameIgnoringCase(c, l) == c = l \/ LowerChar(c) = LowerChar(l)

\* where the k-th field, which starts at start, ends: at the first character
\* that is no digit (%d may begin with one space)
FieldEnd(s, k, start) ==
  IF k = 3 /\ start <= Len(s) /\ s[start] = " " THEN RunEnd(s, start + 1)
  ELSE RunEnd(s, start)

\* the index of the literal after each of the fields k..6
RECURSIVE FieldEnds(_, _, _)
RECURSIVE FieldEndsAfter(_, _, _)
FieldEnds(s, k, start) ==
  IF k > 6 THEN <<>> ELSE FieldEndsAfter(s, k, FieldEnd(s, k, start))
FieldEndsAfter(s, k, e) == <<e>> \o FieldEnds(s, k + 1, e + 1)

\* the k-th field of s, given the indices e of the literals
Field(s, e, k) == SubSeq(s, IF k = 1 THEN 1 ELSE e[k - 1] + 1, e[k] - 1)

\* the day's digits, without the space %d allows before them
DayDigits(fd) == IF Len(fd) > 0 /\ fd[1] = " " THEN Tail(fd) ELSE fd

\* the date and time read from the fields exist
DateExists(year, month, day, second) ==
  year >= 1 /\ day <= DaysInMonth(year, month) /\ second <= 59

\* s matches iso_8601 with its literals at the indices e
StrptimeAt(s, e) ==
  /\ \A k \in 1..6 : e[k] <= Len(s) /\ SameIgnoringCase(s[e[k]], Literals[k])
  /\ e[6] = Len(s)
  /\ \A k \in 1..6 : DirectiveMatches(Directives[k], Field(s, e, k))
  /\ DateExists(DigitsVal(Field(s, e, 1)), DigitsVal(Field(s, e, 2)),
                DigitsVal(DayDigits(Field(s, e, 3))), DigitsVal(Field(s, e, 6)))

\* datetime.strptime(s, "%Y-%m-%dT%H:%M:%SZ") returns (TRUE) or raises ValueError
\* (FALSE). The fields are the runs of digits between the literals, which are
\* matched ignoring case; the whole of s must be used; the date must exist.
strptime(s) == StrptimeAt(s, FieldEnds(s, 1, 1))

(***************************************************************************)
(* Query.temporal                                                          *)
(***************************************************************************)

Converted(s) == [err |-> "", msg |-> "", s |-> s]
NotConverted(e, m) == [err |-> e, msg |-> m, s |-> <<>>]

\* convert_to_string(date): "" for a falsy date, strftime for a datetime, a
\* string strptime accepts as it is; anything else raises ValueError
convert_to_string(date) ==
  IF ~Truthy(date) THEN Converted(<<>>)
  ELSE IF date.t = "datetime" THEN Converted(strftime(date))
  ELSE IF date.t = "str"
       THEN IF strptime(date.s) THEN Converted(date.s)
            ELSE NotConverted("ValueError", "time data does not match format")
  ELSE NotConverted("ValueError",
         "Please provide None, datetime objects, or ISO 8601 formatted strings.")

\* d[k].append(item): the list under k grows in place, k keeps its position
ListAppend(d, k, item) ==
  [i \in 1..Len(d) |->
     IF d[i].key = k THEN Entry(k, PyList(Append(d[i].val.l, item))) ELSE d[i]]

\* TemporalAppend with the list replaced by the new range instead of grown
TemporalAppend_overwrite(P, range) == DictSet(P, k_temporal, PyList(<<PyStr(range)>>))

\* self.params after the append of one range string: the list is created on
\* first use
TemporalAppend(P, range) ==
  LET withList == IF HasKey(P, k_temporal) THEN P
                  ELSE DictSet(P, k_temporal, PyList(<<>>))
  IN  ListAppend(withList, k_temporal, PyStr(range))

\* TemporalOption writing the flag of every call, true or false
TemporalOption_last_write(O, exclude_boundary) ==
  DictSet(O, k_temporal, <<Entry(k_exclude_boundary, PyBool(Truthy(exclude_boundary)))>>)

\* self.options after temporal(..., exclude_boundary)
TemporalOption(O, exclude_boundary) ==
  IF Truthy(exclude_boundary)
  THEN DictSet(O, k_temporal, <<Entry(k_exclude_boundary, PyBool(TRUE))>>)
  ELSE O

\* the rest of temporal without the comparison of date_from with date_to
temporal_checked_unchecked(P, O, f, t, exclude_boundary) ==
  IF f.err # "" THEN Result(P, O, Raise(f.err, f.msg))
  ELSE IF t.err # "" THEN Result(P, O, Raise(t.err, t.msg))
  ELSE Result(TemporalAppend(P, f.s \o <<",">> \o t.s),
              TemporalOption(O, exclude_boundary),
              Return("self"))

\* the rest of temporal recording the option before the dates are validated
temporal_checked_option_first(P, O, f, t, exclude_boundary) ==
  IF f.err # "" THEN Result(P, TemporalOption(O, exclude_boundary), Raise(f.err, f.msg))
  ELSE IF t.err # "" THEN Result(P, TemporalOption(O, exclude_boundary), Raise(t.err, t.msg))
  ELSE IF Len(f.s) > 0 /\ Len(t.s) > 0 /\ StrGT(f.s, t.s)
  THEN Result(P, TemporalOption(O, exclude_boundary),
              Raise("ValueError", "date_from must be earlier than date_to."))
  ELSE Result(TemporalAppend(P, f.s \o <<",">> \o t.s),
              TemporalOption(O, exclude_boundary), Return("self"))

\* temporal once both dates went through convert_to_string, to f and t: an
\* error of either conversion is raised; both dates given, date_from must not
\* be greater than date_to; then the range is appended and the option set
temporal_checked(P, O, f, t, exclude_boundary) ==
  IF f.err # "" THEN Result(P, O, Raise(f.err, f.msg))
  ELSE IF t.err # "" THEN Result(P, O, Raise(t.err, t.msg))
  ELSE IF Len(f.s) > 0 /\ Len(t.s) > 0 /\ StrGT(f.s, t.s)
  THEN Result(P, O, Raise("ValueError", "date_from must be earlier than date_to."))
  ELSE Result(TemporalAppend(P, f.s \o <<",">> \o t.s),
              TemporalOption(O, exclude_boundary),
              Return("self"))

\* Query.temporal (GranuleQuery.temporal of granule.py is the same code)
temporal_method(P, O, date_from, date_to, exclude_boundary) ==
  temporal_checked(P, O, convert_to_string(date_from), convert_to_string(date_to),
                   exclude_boundary)

(***************************************************************************)
(* urllib.parse.quote and float()                                          *)
(***************************************************************************)

HexChars == <<"0","1","2","3","4","5","6","7","8","9","A","B","C","D","E","F">>

\* the characters quote() never encodes: its unreserved set and the safe "/"
AlwaysSafe(c) ==
  In(c, UpperChars) \/ In(c, LowerChars) \/ In(c, DigitChars) \/ In(c, <<"_",".","-","~","/">>)

\* quote(s) of a str: every other character becomes %XX
RECURSIVE QuoteStr(_)
QuoteStr(s) ==
  IF Len(s) = 0 THEN <<>>
  ELSE (IF AlwaysSafe(s[1]) THEN <<s[1]>>
        ELSE <<"%", HexChars[(Ord(s[1]) \div 16) + 1], HexChars[(Ord(s[1]) % 16) + 1]>>)
       \o QuoteStr(Tail(s))

\* self._urlencodestring(value): quote() raises TypeError for what is no str
urlencodestring(value) ==
  IF IsStr(value) THEN Converted(QuoteStr(value.s))
  ELSE NotConverted("TypeError", "quote_from_bytes() expected bytes")

Float(x) == [err |-> "", msg |-> "", x |-> x]
NoFloat(e, m) == [err |-> e, msg |-> m, x |-> 0]

\* float() of a text whose sign was taken off: body has its digits up to e - 1
FloatOfBody(negative, body, n, e) ==
  IF (e > 1 /\ e = n + 1)
     \/ (e > 1 /\ e = n /\ body[e] = ".")
     \/ (e + 1 = n /\ body[e] = "." /\ IsDigit(body[n]))
  THEN Float((IF negative THEN -1 ELSE 1)
             * (10 * DigitsVal(SubSeq(body, 1, e - 1))
                + (IF e + 1 = n THEN DigitVal(body[n]) ELSE 0)))
  ELSE NoFloat("ValueError", "could not convert string to float")

FloatOfSigned(negative, body) == FloatOfBody(negative, body, Len(body), RunEnd(body, 1))

\* float(s) of a str, for the texts of the model: an optional sign, digits and
\* at most one decimal place ("1", "1.", "1.5", ".5"); any other text raises
\* ValueError
StrToFloat(s) ==
  IF Len(s) > 0 /\ s[1] \in {"-", "+"} THEN FloatOfSigned(s[1] = "-", Tail(s))
  ELSE FloatOfSigned(FALSE, s)

\* float(v), in tenths
ToFloat(v) ==
  CASE v.t = "int" -> Float(10 * v.n)
    [] v.t = "float" -> Float(v.x)
    [] v.t = "bool" -> Float(IF v.b THEN 10 ELSE 0)
    [] v.t = "str" -> StrToFloat(v.s)
    [] OTHER -> NoFloat("TypeError", "float() argument must be a string or a number")

Floats(xs) == [err |-> "", msg |-> "", xs |-> xs]
NoFloats(e, m) == [err |-> e, msg |-> m, xs |-> <<>>]

\* float() of each of vs in turn: the floats, or the first error
RECURSIVE ToFloats(_)
FloatsCons(h, rest) ==
  IF h.err # "" THEN NoFloats(h.err, h.msg)
  ELSE IF rest.err # "" THEN rest
  ELSE Floats(<<h.x>> \o rest.xs)
ToFloats(vs) ==
  IF Len(vs) = 0 THEN Floats(<<>>) ELSE FloatsCons(ToFloat(vs[1]), ToFloats(Tail(vs)))

\* [lon1, lat1, lon2, lat2, ...] of a list of (lon, lat) pairs
RECURSIVE Flatten(_)
Flatten(pairs) ==
  IF Len(pairs) = 0 THEN <<>> ELSE <<pairs[1][1], pairs[1][2]>> \o Flatten(Tail(pairs))

\* ",".join(str(x) for x in xs)
JoinFloats(xs) == Join(<<",">>, [i \in 1..Len(xs) |-> FloatStr(xs[i])])

(***************************************************************************)
(* The other setters of Query and GranuleQuery                             *)
(***************************************************************************)

\* online_only storing the value before it tests its type
online_only_method_write_first(P, O, online_only) ==
  IF ~IsBool(online_only)
  THEN Result(DictSet(P, k_online_only, online_only), O,
              Raise("TypeError", "Online_only must be of type bool"))
  ELSE Result(DictSet(P, k_online_only, online_only), O, Return("self"))

\* online_only testing isinstance(online_only, int), which a bool passes too
online_only_method_int_passes(P, O, online_only) ==
  IF ~(IsBool(online_only) \/ online_only.t = "int")
  THEN Result(P, O, Raise("TypeError", "Online_only must be of type bool"))
  ELSE Result(DictSet(P, k_online_only, online_only), O, Return("self"))

online_only_method(P, O, online_only) ==
  IF ~IsBool(online_only)
  THEN Result(P, O, Raise("TypeError", "Online_only must be of type bool"))
  ELSE Result(DictSet(P, k_online_only, online_only), O, Return("self"))

short_name_method(P, O, short_name) ==
  IF ~Truthy(short_name) THEN Result(P, O, Return("None"))
  ELSE Result(DictSet(P, k_short_name, short_name), O, Return("self"))

version_method(P, O, version) ==
  IF ~Truthy(version) THEN Result(P, O, Return("None"))
  ELSE Result(DictSet(P, k_version, version), O, Return("self"))

\* self.params[key] = ",".join of the floats fs, or the error float() raised
SetFloats(P, O, key, fs) ==
  IF fs.err # "" THEN Result(P, O, Raise(fs.err, fs.msg))
  ELSE Result(DictSet(P, key, PyStr(JoinFloats(fs.xs))), O, Return("self"))

point_method(P, O, lon, lat) ==
  IF ~Truthy(lat) \/ ~Truthy(lon) THEN Result(P, O, Return("self"))
  ELSE SetFloats(P, O, k_point, ToFloats(<<lon, lat>>))

\* polygon from the conversion to floats on, checking only the longitudes of
\* the first and the last pair
polygon_floats_lon_only(P, O, fs, n) ==
  IF fs.err # "" THEN Result(P, O, Raise(fs.err, fs.msg))
  ELSE IF fs.xs[1] # fs.xs[n - 1]
  THEN Result(P, O, Raise("ValueError",
                          "Coordinates of the last pair must match the first pair."))
  ELSE SetFloats(P, O, k_polygon, fs)

\* polygon from the conversion to floats on: fs are the 2n floats of n pairs
\* (or the error of float()); the last pair must match the first
polygon_floats(P, O, fs, n) ==
  IF fs.err # "" THEN Result(P, O, Raise(fs.err, fs.msg))
  ELSE IF fs.xs[1] # fs.xs[n - 1] \/ fs.xs[2] # fs.xs[n]
  THEN Result(P, O, Raise("ValueError",
                          "Coordinates of the last pair must match the first pair."))
  ELSE SetFloats(P, O, k_polygon, fs)

polygon_method(P, O, coordinates) ==
  IF ~Truthy(coordinates) THEN Result(P, O, Return("self"))
  ELSE IF Len(coordinates.l) < 4
  THEN Result(P, O, Raise("ValueError", "A polygon requires at least 4 pairs of coordinates."))
  ELSE polygon_floats(P, O, ToFloats(Flatten(coordinates.l)), 2 * Len(coordinates.l))

bounding_box_method(P, O, lower_left_lon, lower_left_lat, upper_right_lon, upper_right_lat) ==
  SetFloats(P, O, k_bounding_box,
            ToFloats(<<lower_left_lon, lower_left_lat, upper_right_lon, upper_right_lat>>))

line_method(P, O, coordinates) ==
  IF ~Truthy(coordinates) THEN Result(P, O, Return("self"))
  ELSE IF Len(coordinates.l) < 2
  THEN Result(P, O, Raise("ValueError", "A line requires at least 2 pairs of coordinates."))
  ELSE SetFloats(P, O, k_line, ToFloats(Flatten(coordinates.l)))

downloadable_method(P, O, downloadable) ==
  IF ~IsBool(downloadable)
  THEN Result(P, O, Raise("TypeError", "Downloadable must be of type bool"))
  ELSE Result(DictSet(P, k_downloadable, downloadable), O, Return("self"))

\* self.params['entry_title'] = q, or the error quote() raised
SetQuoted(P, O, q) ==
  IF q.err # "" THEN Result(P, O, Raise(q.err, q.msg))
  ELSE Result(DictSet(P, k_entry_title, PyStr(q.s)), O, Return("self"))

entry_title_method(P, O, entry_title) == SetQuoted(P, O, urlencodestring(entry_title))

orbit_number_method(P, O, orbit1, orbit2) ==
  IF Truthy(orbit2)
  THEN Result(DictSet(P, k_orbit_number,
                      PyStr(QuoteStr(Str(orbit1) \o <<",">> \o Str(orbit2)))),
              O, Return("self"))
  ELSE Result(DictSet(P, k_orbit_number, orbit1), O, Return("self"))

DayNightFlags == {<<"d","a","y">>, <<"n","i","g","h","t">>,
                  <<"u","n","s","p","e","c","i","f","i","e","d">>}

day_night_flag_method(P, O, day_night_flag) ==
  IF ~IsStr(day_night_flag)
  THEN Result(P, O, Raise("TypeError", "day_night_flag must be of type str."))
  ELSE IF Lower(day_night_flag.s) \notin DayNightFlags
  THEN Result(P, O, Raise("ValueError", "day_night_flag must be day, night or unspecified."))
  ELSE Result(DictSet(P, k_day_night_flag, PyStr(Lower(day_night_flag.s))), O, Return("self"))

\* the try block of cloud_cover once float() was applied to both bounds: "self"
\* when it passes, else the exception it ends in. A ValueError raised inside it,
\* by float() or by the comparison, is caught and raised again with the message
\* of the except clause.
CloudCoverTry(fs) ==
  IF fs.err = "TypeError" THEN Raise(fs.err, fs.msg)
  ELSE IF fs.err = "ValueError" \/ fs.xs[1] > fs.xs[2]
  THEN Raise("ValueError", "Please ensure min_cover and max_cover are both floats")
  ELSE Return("self")

CloudCoverCheck(min_cover, max_cover) == CloudCoverTry(ToFloats(<<min_cover, max_cover>>))

\* cloud_cover after its first test; checked is the outcome of the try block
\* when both bounds are truthy
cloud_cover_checked(P, O, min_cover, max_cover, checked) ==
  IF Truthy(min_cover) /\ Truthy(max_cover) /\ Raised(checked)
  THEN Result(P, O, checked)
  ELSE Result(DictSet(P, k_cloud_cover, PyStr(Str(min_cover) \o <<",">> \o Str(max_cover))),
              O, Return("self"))

cloud_cover_method(P, O, min_cover, max_cover) ==
  IF ~Truthy(min_cover) /\ ~Truthy(max_cover)
  THEN Result(P, O, Raise("ValueError", "Please provide at least min_cover, max_cover or both"))
  ELSE cloud_cover_checked(P, O, min_cover, max_cover, CloudCoverCheck(min_cover, max_cover))

instrument_method(P, O, instrument) ==
  IF ~Truthy(instrument)
  THEN Result(P, O, Raise("ValueError", "Please provide a value for instrument"))
  ELSE Result(DictSet(P, k_instrument, instrument), O, Return("self"))

platform_method(P, O, platform) ==
  IF ~Truthy(platform)
  THEN Result(P, O, Raise("ValueError", "Please provide a value for platform"))
  ELSE Result(DictSet(P, k_platform, platform), O, Return("self"))

granule_ur_method(P, O, granule_ur) ==
  IF ~Truthy(granule_ur)
  THEN Result(P, O, Raise("ValueError", "Please provide a value for platform"))
  ELSE Result(DictSet(P, k_granule_ur, granule_ur), O, Return("self"))

(***************************************************************************)
(* Query.query and GranuleQuery._valid_state                               *)
(***************************************************************************)

base_url == <<"h","t","t","p","s",":","/","/","c","m","r",".","e","a","r","t","h","d","a","t","a",".","n","a","s","a",".","g","o","v","/","s","e","a","r","c","h","/","g","r","a","n","u","l","e","s",".","j","s","o","n">>

spatial_keys == <<k_point, k_polygon, k_bounding_box, k_line>>
collection_keys == <<k_short_name, k_entry_title>>

\* any(key in d for key in keys)
AnyKeyIn(keys, d) == \E i \in 1..Len(keys) : HasKey(d, keys[i])

\* _valid_state taking short_name for the only collection filter
_valid_state_short_name_only(P) ==
  IF AnyKeyIn(spatial_keys, P) /\ ~HasKey(P, k_short_name) THEN FALSE ELSE TRUE

\* spatial params must be paired with a collection limiting parameter
_valid_state(P) ==
  IF AnyKeyIn(spatial_keys, P) /\ ~AnyKeyIn(collection_keys, P) THEN FALSE ELSE TRUE

\* "{}[]={}".format(key, list_val) for every element of a list
ListPairs(key, l) == [i \in 1..Len(l) |-> key \o <<"[","]","=">> \o Str(l[i])]

\* formatted_params: one pair per scalar, one per element of a list, in the
\* order self.params.items() yields them
RECURSIVE formatted_params(_)
formatted_params(P) ==
  IF Len(P) = 0 THEN <<>>
  ELSE (IF IsList(P[1].val) THEN ListPairs(P[1].key, P[1].val.l)
        ELSE <<P[1].key \o <<"=">> \o Str(P[1].val)>>)
       \o formatted_params(Tail(P))

\* "options[{}][{}]={}".format(param_key, option_key, val) for every option of
\* one parameter
OptionPairs(param_key, opts) ==
  [i \in 1..Len(opts) |->
     <<"o","p","t","i","o","n","s">> \o <<"[">> \o param_key \o <<"]","[">> \o opts[i].key
       \o <<"]","=">> \o Str(opts[i].val)]

RECURSIVE formatted_options(_)
formatted_options(O) ==
  IF Len(O) = 0 THEN <<>>
  ELSE OptionPairs(O[1].key, O[1].val) \o formatted_options(Tail(O))

\* all CMR options must be booleans
OptionsAreBool(O) ==
  \A i \in 1..Len(O) : \A j \in 1..Len(O[i].val) : IsBool(O[i].val[j].val)

\* url = "{}?{}&{}".format(self.base_url, params_as_string, options_as_string)
Url(P, O) ==
  base_url \o <<"?">> \o Join(<<"&">>, formatted_params(P))
           \o <<"&">> \o Join(<<"&">>, formatted_options(O))

\* what get(url) and the decoding of its response can come to
Responses == {"ok", "http_error", "connection_error", "not_json"}

\* the outcome of query() once the GET is issued
AfterGet(response) ==
  CASE response = "ok" -> Return("json")
    [] response = "http_error" -> Raise("RuntimeError", "ex.response.text")
    [] response = "connection_error" -> Raise("ConnectionError", "")
    [] response = "not_json" -> Raise("ValueError", "response body is not JSON")

\* query(): the outcome, and the URLs requested by it (none or one)
query_method(P, O, response) ==
  IF ~_valid_state(P)
  THEN [ret |-> Raise("RuntimeError",
                      "Spatial parameters must be accompanied by a collection filter (ex: short_name or entry_title)."),
        got |-> <<>>]
  ELSE IF ~OptionsAreBool(O)
  THEN [ret |-> Raise("ValueError", "parameter with option must be a boolean"), got |-> <<>>]
  ELSE [ret |-> AfterGet(response), got |-> <<Url(P, O)>>]

(***************************************************************************)
(* The builder as a state machine: one action per method call              *)
(***************************************************************************)

\* Query.__init__: both dicts empty. call and ret describe the last call made,
\* requests the URLs handed to get() so far, ncalls the number of calls made.
\* temporalArgs (the arguments of the temporal calls that returned) and firstSet
\* (the parameter names in the order they first appeared) record the history.
Init ==
  /\ params = <<>>
  /\ options = <<>>
  /\ call = [op |-> "__init__", args |-> <<>>]
  /\ ret = Return("self")
  /\ requests = <<>>
  /\ ncalls = 0
  /\ temporalArgs = <<>>
  /\ firstSet = <<>>

Range(s) == {s[i] : i \in 1..Len(s)}

\* the keys of P that firstSet does not hold yet, in P's order
NewKeys(P) == SelectSeq(Keys(P), LAMBDA k : k \notin Range(firstSet))

\* a setter was called and came to res
Apply(op, args, res) ==
  /\ params' = res.params
  /\ options' = res.options
  /\ ret' = res.ret
  /\ call' = [op |-> op, args |-> args]
  /\ requests' = requests
  /\ temporalArgs' = IF op = "temporal" /\ ~Raised(res.ret)
                     THEN Append(temporalArgs, args) ELSE temporalArgs
  /\ firstSet' = firstSet \o NewKeys(res.params)

online_only(v) == Apply("online_only", <<v>>, online_only_method(params, options, v))

temporal(date_from, date_to, exclude_boundary) ==
  Apply("temporal", <<date_from, date_to, exclude_boundary>>,
        temporal_method(params, options, date_from, date_to, exclude_boundary))

short_name(v) == Apply("short_name", <<v>>, short_name_method(params, options, v))

version(v) == Apply("version", <<v>>, version_method(params, options, v))

point(lon, lat) == Apply("point", <<lon, lat>>, point_method(params, options, lon, lat))

polygon(coordinates) ==
  Apply("polygon", <<coordinates>>, polygon_method(params, options, coordinates))

bounding_box(a, b, c, d) ==
  Apply("bounding_box", <<a, b, c, d>>, bounding_box_method(params, options, a, b, c, d))

line(coordinates) == Apply("line", <<coordinates>>, line_method(params, options, coordinates))

downloadable(v) == Apply("downloadable", <<v>>, downloadable_method(params, options, v))

entry_title(v) == Apply("entry_title", <<v>>, entry_title_method(params, options, v))

orbit_number(orbit1, orbit2) ==
  Apply("orbit_number", <<orbit1, orbit2>>, orbit_number_method(params, options, orbit1, orbit2))

day_night_flag(v) == Apply("day_night_flag", <<v>>, day_night_flag_method(params, options, v))

cloud_cover(min_cover, max_cover) ==
  Apply("cloud_cover", <<min_cover, max_cover>>,
        cloud_cover_method(params, options, min_cover, max_cover))

instrument(v) == Apply("instrument", <<v>>, instrument_method(params, options, v))

platform(v) == Apply("platform", <<v>>, platform_method(params, options, v))

granule_ur(v) == Apply("granule_ur", <<v>>, granule_ur_method(params, options, v))

\* Queried with the builder emptied by the request
Queried_clearing(res) ==
  /\ ret' = res.ret
  /\ requests' = requests \o res.got
  /\ call' = [op |-> "query", args |-> <<>>]
  /\ params' = IF Len(res.got) > 0 THEN <<>> ELSE params
  /\ options' = IF Len(res.got) > 0 THEN <<>> ELSE options
  /\ UNCHANGED <<temporalArgs, firstSet>>

\* query() was called and came to res
Queried(res) ==
  /\ ret' = res.ret
  /\ requests' = requests \o res.got
  /\ call' = [op |-> "query", args |-> <<>>]
  /\ UNCHANGED <<params, options, temporalArgs, firstSet>>

query(response) == Queried(query_method(params, options, response))

\* one more call, while fewer than bound have been made
Calls(bound) == ncalls < bound /\ ncalls' = ncalls + 1

(***************************************************************************)
(* The arguments the calls are made with                                   *)
(***************************************************************************)

None == PyNone
True == PyBool(TRUE)
False == PyBool(FALSE)
EmptyStr == PyStr(<<>>)

\* dates: two datetimes and two fixed-width ISO 8601 strings
dt_10_55_07 == PyDatetime(2016, 10, 12, 10, 55, 7)
dt_09_00_00 == PyDatetime(2016, 10, 12, 9, 0, 0)
iso_oct_10 == PyStr(<<"2","0","1","6","-","1","0","-","1","0","T","0","1",":","0","2",":","0","3","Z">>)
iso_oct_12 == PyStr(<<"2","0","1","6","-","1","0","-","1","2","T","0","9",":","0","8",":","0","7","Z">>)
iso_unpadded == PyStr(<<"2","0","1","6","-","9","-","0","1","T","0","0",":","0","0",":","0","0","Z">>)
not_iso == PyStr(<<"2","0","1","6">>)

Dates == {None, dt_10_55_07, dt_09_00_00, iso_oct_10, iso_oct_12}

Flags == {True, False}

\* the dates of the runs in which every method is called: a datetime, a string
\* strptime accepts although its month is not zero-padded, a string it rejects,
\* an int
SomeDates == {None, dt_09_00_00, iso_unpadded, not_iso, PyInt(1)}

Names == {None, EmptyStr, PyStr(<<"M","O","D","0","9","G","A">>)}
Titles == {None, EmptyStr, PyStr(<<"D","a","t","a","s","e","t","I","d"," ","5">>)}
Versions == {None, PyStr(<<"0","0","6">>)}
BoolInputs == {True, False, None, PyStr(<<"I","n","v","a","l","i","d"," ","T","y","p","e">>)}
DayNightInputs == {PyStr(<<"D","A","Y">>), PyStr(<<"n","i","g","h","t">>), PyStr(<<"d","u","s","k">>), True, None, EmptyStr}
Orbits == {<<PyInt(985), None>>, <<PyInt(985), PyInt(986)>>, <<None, None>>}

\* coordinates: numbers, numeric text, text that is no number, nothing
Coordinates == {PyInt(0), PyInt(1), PyFloat(446), PyStr(<<"-","6","3",".","6">>), PyStr(<<"x">>), None}
Points == {<<PyInt(1), PyInt(2)>>, <<PyFloat(446), PyStr(<<"-","6","3",".","6">>)>>,
           <<PyInt(0), PyInt(1)>>, <<None, None>>, <<PyStr(<<"x">>), PyInt(1)>>}
Boxes == {<<PyInt(0), PyInt(0), PyInt(1), PyInt(1)>>, <<None, None, None, None>>}

p00 == <<PyInt(0), PyInt(0)>>
p10 == <<PyInt(1), PyInt(0)>>
p01 == <<PyInt(0), PyInt(1)>>
Pairs == {p00, p10, p01}

Rings == {None, PyList(<<>>), PyList(<<p00, p10, p00>>), PyList(<<p00, p10, p01, p00>>),
          PyList(<<p00, p10, p01, p10>>)}
Lines == {None, PyList(<<>>), PyList(<<p00>>), PyList(<<p00, p10>>)}

\* the list of n >= 2 pairs from first to last, the pairs between them taken in
\* turn from p10 and p01
RingOf(n, first, last) ==
  [i \in 1..n |-> IF i = 1 THEN first ELSE IF i = n THEN last
                  ELSE IF i % 2 = 0 THEN p10 ELSE p01]

\* lists of 0 to MaxRing pairs, with every first and every last pair
PairLists ==
  {<<>>} \cup {<<p>> : p \in Pairs}
    \cup {RingOf(n, first, last) : n \in 2..MaxRing, first \in Pairs, last \in Pairs}

Covers == {None} \cup {PyInt(n) : n \in 0..MaxCover}
SomeCovers == {<<PyInt(5), PyInt(10)>>, <<PyInt(10), PyInt(5)>>, <<None, None>>,
               <<PyInt(0), PyInt(0)>>, <<PyInt(5), PyInt(0)>>}

(***************************************************************************)
(* Specifications                                                          *)
(***************************************************************************)

\* every method, a few arguments each
Next ==
  \/ \E v \in BoolInputs : Calls(MaxCalls) /\ online_only(v)
  \/ \E f \in SomeDates, t \in SomeDates, e \in Flags : Calls(MaxCalls) /\ temporal(f, t, e)
  \/ \E v \in Names : Calls(MaxCalls) /\ short_name(v)
  \/ \E v \in Versions : Calls(MaxCalls) /\ version(v)
  \/ \E p \in Points : Calls(MaxCalls) /\ point(p[1], p[2])
  \/ \E c \in Rings : Calls(MaxCalls) /\ polygon(c)
  \/ \E b \in Boxes : Calls(MaxCalls) /\ bounding_box(b[1], b[2], b[3], b[4])
  \/ \E c \in Lines : Calls(MaxCalls) /\ line(c)
  \/ \E v \in BoolInputs : Calls(MaxCalls) /\ downloadable(v)
  \/ \E v \in Titles : Calls(MaxCalls) /\ entry_title(v)
  \/ \E o \in Orbits : Calls(MaxCalls) /\ orbit_number(o[1], o[2])
  \/ \E v \in DayNightInputs : Calls(MaxCalls) /\ day_night_flag(v)
  \/ \E c \in SomeCovers : Calls(MaxCalls) /\ cloud_cover(c[1], c[2])
  \/ \E v \in Names : Calls(MaxCalls) /\ instrument(v)
  \/ \E v \in Names : Calls(MaxCalls) /\ platform(v)
  \/ \E v \in Names : Calls(MaxCalls) /\ granule_ur(v)
  \/ \E r \in Responses : Calls(MaxCalls) /\ query(r)

Spec == Init /\ [][Next]_vars

\* temporal() with every pair of dates, and query()
NextTemporal ==
  \/ \E f \in Dates, t \in Dates, e \in Flags : Calls(MaxTemporalCalls) /\ temporal(f, t, e)
  \/ \E r \in Responses : Calls(MaxTemporalCalls) /\ query(r)

SpecTemporal == Init /\ [][NextTemporal]_vars

\* the spatial and the collection filters, version and temporal, and query()
NextBuild ==
  \/ \E p \in {<<PyInt(1), PyInt(2)>>} : Calls(MaxBuildCalls) /\ point(p[1], p[2])
  \/ \E c \in {PyList(<<p00, p10, p01, p00>>)} : Calls(MaxBuildCalls) /\ polygon(c)
  \/ \E b \in {<<PyInt(0), PyInt(0), PyInt(1), PyInt(1)>>} :
        Calls(MaxBuildCalls) /\ bounding_box(b[1], b[2], b[3], b[4])
  \/ \E c \in {PyList(<<p00, p10>>)} : Calls(MaxBuildCalls) /\ line(c)
  \/ \E v \in {PyStr(<<"M","O","D","0","9","G","A">>), PyStr(<<"M","Y","D","0","9","G","A">>)} :
        Calls(MaxBuildCalls) /\ short_name(v)
  \/ \E v \in {PyStr(<<"D","a","t","a","s","e","t","I","d"," ","5">>)} : Calls(MaxBuildCalls) /\ entry_title(v)
  \/ \E v \in {PyStr(<<"0","0","6">>)} : Calls(MaxBuildCalls) /\ version(v)
  \/ \E a \in {<<iso_oct_10, False>>, <<dt_09_00_00, True>>} :
        Calls(MaxBuildCalls) /\ temporal(a[1], dt_10_55_07, a[2])
  \/ \E r \in {"ok", "http_error"} : Calls(MaxBuildCalls) /\ query(r)

SpecBuild == Init /\ [][NextBuild]_vars

\* polygon() with lists of at most MaxRing pairs, short_name() and query()
NextPolygon ==
  \/ \E l \in PairLists : Calls(MaxPolygonCalls) /\ polygon(PyList(l))
  \/ Calls(MaxPolygonCalls) /\ polygon(None)
  \/ \E v \in {PyStr(<<"M","O","D","0","9","G","A">>)} : Calls(MaxPolygonCalls) /\ short_name(v)
  \/ \E r \in Responses : Calls(MaxPolygonCalls) /\ query(r)

SpecPolygon == Init /\ [][NextPolygon]_vars

\* cloud_cover() with every pair of bounds
NextCloudCover ==
  \/ \E a \in Covers, b \in Covers : Calls(MaxCloudCalls) /\ cloud_cover(a, b)
  \/ \E r \in Responses : Calls(MaxCloudCalls) /\ query(r)

SpecCloudCover == Init /\ [][NextCloudCover]_vars

\* values of every type for a parameter that is to be a bool
TypedInputs ==
  {True, False, None, PyInt(0), PyInt(1), PyFloat(10), EmptyStr,
   PyStr(<<"T","r","u","e">>), PyStr(<<"I","n","v","a","l","i","d"," ","T","y","p","e">>)}

\* online_only() and downloadable() with values of every type, and query()
NextBool ==
  \/ \E v \in TypedInputs : Calls(MaxBoolCalls) /\ online_only(v)
  \/ \E v \in TypedInputs : Calls(MaxBoolCalls) /\ downloadable(v)
  \/ \E r \in Responses : Calls(MaxBoolCalls) /\ query(r)

SpecBool == Init /\ [][NextBool]_vars

(***************************************************************************)
(* Properties                                                              *)
(***************************************************************************)

\* params["temporal"], empty while the key is absent
TemporalList == IF HasKey(params, k_temporal) THEN Get(params, k_temporal).l ELSE <<>>

\* an input the claim speaks of: a datetime, or a fixed-width ISO 8601 string
\* (YYYY-MM-DDTHH:MM:SSZ, 20 characters)
IsTimestamp(v) == v.t = "datetime" \/ (v.t = "str" /\ Len(v.s) = 20 /\ strptime(v.s))

\* the fields <<year, month, day, hour, minute, second>> of a timestamp
Fields(v) ==
  IF v.t = "datetime" THEN <<v.year, v.month, v.day, v.hour, v.minute, v.second>>
  ELSE <<DigitsVal(SubSeq(v.s, 1, 4)), DigitsVal(SubSeq(v.s, 6, 7)),
         DigitsVal(SubSeq(v.s, 9, 10)), DigitsVal(SubSeq(v.s, 12, 13)),
         DigitsVal(SubSeq(v.s, 15, 16)), DigitsVal(SubSeq(v.s, 18, 19))>>

\* a is a later instant than b
RECURSIVE FieldsLater(_, _)
FieldsLater(a, b) ==
  IF Len(a) = 0 THEN FALSE
  ELSE IF a[1] # b[1] THEN a[1] > b[1]
  ELSE FieldsLater(Tail(a), Tail(b))

Later(a, b) == FieldsLater(Fields(a), Fields(b))

TwoDigits(n) == <<DigitChars[(n \div 10) + 1], DigitChars[(n % 10) + 1]>>

\* the canonical timestamp YYYY-MM-DDTHH:MM:SSZ of a timestamp input
Canonical(v) ==
  LET f == Fields(v)
  IN  TwoDigits(f[1] \div 100) \o TwoDigits(f[1] % 100) \o <<"-">> \o TwoDigits(f[2])
        \o <<"-">> \o TwoDigits(f[3]) \o <<"T">> \o TwoDigits(f[4]) \o <<":">>
        \o TwoDigits(f[5]) \o <<":">> \o TwoDigits(f[6]) \o <<"Z">>

\* the string a date argument stands for in a range: nothing for None, a string
\* as written, the timestamp of a datetime
DateString(v) ==
  IF ~Truthy(v) THEN <<>> ELSE IF v.t = "str" THEN v.s ELSE Canonical(v)

\* the "from,to" string of a temporal call with these arguments
RangeOf(args) == PyStr(DateString(args[1]) \o <<",">> \o DateString(args[2]))

\* C1: after N temporal calls that returned, params["temporal"] holds exactly N
\* range strings, the i-th being the "from,to" string of the i-th call.
C1_TemporalKeepsCallOrder ==
  /\ Len(TemporalList) = Len(temporalArgs)
  /\ \A i \in 1..Len(temporalArgs) : TemporalList[i] = RangeOf(temporalArgs[i])

\* two temporal calls with different ranges have returned
C1_Witness ==
  /\ Len(temporalArgs) = 2
  /\ RangeOf(temporalArgs[1]) # RangeOf(temporalArgs[2])
  /\ Len(TemporalList) = 2

\* C4: temporal(from, to) with two timestamps, each a datetime or an ISO 8601
\* string, raises the ValueError of the range check and leaves params alone when
\* from is later than to; otherwise it returns the builder and appends exactly
\* "<canonical from>,<canonical to>".
C4_TemporalRangeCheck ==
  [][(call'.op = "temporal" /\ IsTimestamp(call'.args[1]) /\ IsTimestamp(call'.args[2]))
       => IF Later(call'.args[1], call'.args[2])
          THEN /\ ret' = Raise("ValueError", "date_from must be earlier than date_to.")
               /\ params' = params
          ELSE /\ ret' = Return("self")
               /\ TemporalList' = Append(TemporalList,
                    PyStr(Canonical(call'.args[1]) \o <<",">> \o Canonical(call'.args[2])))]_vars

\* a datetime later than the ISO 8601 string given as date_to was refused
C4_Witness ==
  /\ call.op = "temporal"
  /\ call.args[1].t = "datetime" /\ call.args[2].t = "str"
  /\ IsTimestamp(call.args[2])
  /\ Later(call.args[1], call.args[2])
  /\ ret.exc = "ValueError"

\* options["temporal"]["exclude_boundary"] is recorded as True
ExcludeBoundaryRecorded ==
  /\ HasKey(options, k_temporal)
  /\ HasKey(Get(options, k_temporal), k_exclude_boundary)
  /\ Get(Get(options, k_temporal), k_exclude_boundary) = True

\* C8 as claimed: after a temporal call that returned, the recorded option is
\* the flag of that call (last write wins).
C8_LastWriteWins ==
  (call.op = "temporal" /\ ~Raised(ret)) => (ExcludeBoundaryRecorded <=> Truthy(call.args[3]))

\* C8, amended: the option is recorded as True exactly when some temporal call
\* that returned was given a true exclude_boundary; a later call with a false
\* flag leaves it recorded.
C8_ExcludeBoundarySticks ==
  /\ ExcludeBoundaryRecorded <=> \E i \in 1..Len(temporalArgs) : Truthy(temporalArgs[i][3])
  /\ HasKey(options, k_temporal) => ExcludeBoundaryRecorded

\* a call with exclude_boundary false has returned after one with it true
C8_Witness ==
  /\ Len(temporalArgs) = 2
  /\ Truthy(temporalArgs[1][3]) /\ ~Truthy(temporalArgs[2][3])
  /\ call.op = "temporal" /\ ~Raised(ret)
  /\ ExcludeBoundaryRecorded

(***************************************************************************)
(* query() and the state of the builder                                    *)
(***************************************************************************)

\* the names under which params holds a value
ParamNames == {params[i].key : i \in 1..Len(params)}

SpatialNames == {k_point, k_polygon, k_bounding_box, k_line}
IdentifyingNames == {k_short_name, k_entry_title}

\* the error of a query in an invalid state
InvalidQueryState ==
  Raise("RuntimeError",
        "Spatial parameters must be accompanied by a collection filter (ex: short_name or entry_title).")

\* C2: query() on a builder that holds a spatial parameter and neither short_name
\* nor entry_title fails with the invalid-state error and issues no GET, whatever
\* the order the parameters were set in; with any other set of names it issues
\* its GET.
C2_SpatialNeedsCollection ==
  [][call'.op = "query"
       => IF ParamNames \cap SpatialNames # {} /\ ParamNames \cap IdentifyingNames = {}
          THEN ret' = InvalidQueryState /\ requests' = requests
          ELSE ret' # InvalidQueryState /\ Len(requests') = Len(requests) + 1]_vars

\* query() was refused on a builder holding a spatial parameter and another
\* parameter that identifies no collection
C2_Witness ==
  /\ call.op = "query"
  /\ ret = InvalidQueryState
  /\ requests = <<>>
  /\ ParamNames \cap SpatialNames # {}
  /\ Cardinality(ParamNames) >= 2

\* C3: a setter that fails leaves params and options exactly as they were.
C3_ValidateBeforeWrite ==
  [][(call'.op # "query" /\ Raised(ret')) => (params' = params /\ options' = options)]_vars

\* online_only was refused on a builder that holds a parameter, and params has
\* no online_only
C3_Witness ==
  /\ call.op = "online_only"
  /\ Raised(ret)
  /\ Len(params) >= 1
  /\ ~HasKey(params, k_online_only)

\* C7: every key of options is a key of params.
C7_OptionsQualifyParams ==
  \A i \in 1..Len(options) : HasKey(params, options[i].key)

\* an option is recorded, and a later setter has failed
C7_Witness ==
  /\ Len(options) >= 1
  /\ call.op # "query" /\ Raised(ret)

(***************************************************************************)
(* The query string                                                        *)
(***************************************************************************)

\* the indices from index from on at which s holds sep
SepsFrom(s, sep, from) == {i \in from..Len(s) : s[i] = sep}

\* the pieces of s from index from on that the occurrences of sep part; next
\* is the index of the first of these occurrences
RECURSIVE SplitFrom(_, _, _)
RECURSIVE SplitAt(_, _, _, _)
SplitFrom(s, sep, from) ==
  IF SepsFrom(s, sep, from) = {} THEN <<SubSeq(s, from, Len(s))>>
  ELSE SplitAt(s, sep, from,
               CHOOSE i \in SepsFrom(s, sep, from) : \A j \in SepsFrom(s, sep, from) : i <= j)
SplitAt(s, sep, from, next) == <<SubSeq(s, from, next - 1)>> \o SplitFrom(s, sep, next + 1)

\* the pairs of the query string of url, which follows the first "?"
QueryPairs(url) == SplitFrom(url, "&", Len(base_url) + 2)

\* the pairs one parameter name is to be sent as: one per range of the temporal
\* calls, in the order of the calls, or the one name=value
PairsOfName(k) ==
  IF k = k_temporal
  THEN [j \in 1..Len(temporalArgs) |-> k \o <<"[", "]", "=">> \o RangeOf(temporalArgs[j]).s]
  ELSE <<k \o <<"=">> \o Get(params, k).s>>

\* the pairs of the names, one name after the other
RECURSIVE PairsOfNames(_)
PairsOfNames(names) ==
  IF Len(names) = 0 THEN <<>>
  ELSE PairsOfName(names[1]) \o PairsOfNames(Tail(names))

\* what follows the parameters in a query string: nothing or options
IsOptionPair(p) == Len(p) = 0 \/ SubSeq(p, 1, 8) = <<"o","p","t","i","o","n","s","[">>

\* the pairs sent begin with the pairs expected, and nothing but options follows
BeginsWith(sent, expected) ==
  /\ Len(sent) > Len(expected)
  /\ SubSeq(sent, 1, Len(expected)) = expected
  /\ \A i \in (Len(expected) + 1)..Len(sent) : IsOptionPair(sent[i])

\* the pairs of url are those of the names in the order they were first set,
\* then nothing but options
SentInFirstSetOrder(url) ==
  /\ SubSeq(url, 1, Len(base_url) + 1) = base_url \o <<"?">>
  /\ BeginsWith(QueryPairs(url), PairsOfNames(firstSet))

\* C5: the query string query() requests holds the parameters in the order
\* their names were first set, a name set again keeping its place with its new
\* value, and a list as consecutive name[]=value pairs in the order appended.
C5_SerializationKeepsOrder ==
  [][(call'.op = "query" /\ Len(requests') = Len(requests) + 1)
       => SentInFirstSetOrder(requests'[Len(requests')])]_vars

\* query() has sent two temporal ranges and a short_name that was set between
\* the two temporal calls
C5_Witness ==
  /\ call.op = "query"
  /\ Len(requests) = 1
  /\ firstSet = <<k_temporal, k_short_name>>
  /\ Len(temporalArgs) = 2
  /\ temporalArgs[1] # temporalArgs[2]
  /\ Keys(params) = <<k_temporal, k_short_name>>

(***************************************************************************)
(* Setters and empty inputs                                                *)
(***************************************************************************)

Setters ==
  {"online_only", "temporal", "short_name", "version", "point", "polygon",
   "bounding_box", "line", "downloadable", "entry_title", "orbit_number",
   "day_night_flag", "cloud_cover", "instrument", "platform", "granule_ur"}

\* an absent, empty or None input
IsEmptyInput(v) == v = None \/ v = EmptyStr \/ v = PyList(<<>>)

\* the values given to the parameters the claim speaks of: temporal has
\* exclude_boundary besides its two dates
Inputs(c) == IF c.op = "temporal" THEN SubSeq(c.args, 1, 2) ELSE c.args

\* C6 as claimed: a setter called with nothing but absent, empty or None inputs
\* does not fail, leaves params and options alone and returns the builder.
C6_EmptyInputIsNoOp ==
  [][(call'.op \in Setters /\ \A i \in 1..Len(Inputs(call')) : IsEmptyInput(Inputs(call')[i]))
       => (ret' = Return("self") /\ params' = params /\ options' = options)]_vars

(***************************************************************************)
(* polygon                                                                 *)
(***************************************************************************)

\* str(float(n)) of the small natural numbers the rings are made of
FloatText(v) == NatStr(v.n) \o <<".", "0">>

\* "lon,lat,lon,lat,..." of a list of pairs
RECURSIVE FlatText(_)
FlatText(l) ==
  IF Len(l) = 0 THEN <<>>
  ELSE FloatText(l[1][1]) \o <<",">> \o FloatText(l[1][2])
         \o (IF Len(l) = 1 THEN <<>> ELSE <<",">> \o FlatText(Tail(l)))

\* polygon failed with a ValueError and stored nothing
PolygonRefused == ret'.exc = "ValueError" /\ params' = params /\ options' = options

\* polygon stored the flattened floats of l and returned the builder
PolygonStored(l) ==
  /\ ret' = Return("self")
  /\ HasKey(params', k_polygon)
  /\ Get(params', k_polygon) = PyStr(FlatText(l))

\* C9 as claimed: polygon fails, storing nothing, for every list of fewer than 4
\* pairs (0 to 3) and for every list whose first pair differs from its last; it
\* stores the flattened floats of a closed ring of at least 4 pairs.
C9_PolygonRefusesShortOrOpen ==
  [][(call'.op = "polygon" /\ IsList(call'.args[1]))
       => IF Len(call'.args[1].l) < 4
             \/ call'.args[1].l[1] # call'.args[1].l[Len(call'.args[1].l)]
          THEN PolygonRefused
          ELSE PolygonStored(call'.args[1].l)]_vars

\* C9, amended: polygon with an empty list returns the builder and changes
\* nothing; it fails, storing nothing, for every list of 1 to 3 pairs and for
\* every list of at least 4 pairs whose first pair differs from its last; it
\* stores the flattened floats of a closed ring of at least 4 pairs.
C9_PolygonRefusesShortOrOpenUnlessEmpty ==
  [][(call'.op = "polygon" /\ IsList(call'.args[1]))
       => IF Len(call'.args[1].l) = 0
          THEN ret' = Return("self") /\ params' = params /\ options' = options
          ELSE IF Len(call'.args[1].l) < 4
                  \/ call'.args[1].l[1] # call'.args[1].l[Len(call'.args[1].l)]
          THEN PolygonRefused
          ELSE PolygonStored(call'.args[1].l)]_vars

\* a list of at least 4 pairs that is not closed was refused on a builder that
\* holds a polygon
C9_Witness ==
  /\ call.op = "polygon"
  /\ IsList(call.args[1])
  /\ Len(call.args[1].l) >= 4
  /\ call.args[1].l[1] # call.args[1].l[Len(call.args[1].l)]
  /\ ret.exc = "ValueError"
  /\ HasKey(params, k_polygon)

(***************************************************************************)
(* cloud_cover                                                             *)
(***************************************************************************)

\* C10 as claimed: cloud_cover fails with a ValueError when neither bound is
\* given and when both are numbers of which the minimum is the greater, a bound
\* of 0 included; otherwise it returns the builder and cloud_cover is stored,
\* as "min,max" when both bounds are numbers.
C10_CloudCoverRange ==
  call.op = "cloud_cover"
    => IF call.args[1] = None /\ call.args[2] = None
       THEN ret.exc = "ValueError"
       ELSE IF call.args[1] # None /\ call.args[2] # None /\ call.args[1].n > call.args[2].n
       THEN ret.exc = "ValueError"
       ELSE /\ ret = Return("self")
            /\ HasKey(params, k_cloud_cover)
            /\ (call.args[1] # None /\ call.args[2] # None)
                 => Get(params, k_cloud_cover)
                      = PyStr(NatStr(call.args[1].n) \o <<",">> \o NatStr(call.args[2].n))

(***************************************************************************)
(* online_only and downloadable                                            *)
(***************************************************************************)

\* the parameter name of the two setters that take a bool
BoolParam(op) == IF op = "online_only" THEN k_online_only ELSE k_downloadable

\* params without the entry of key k
Without(d, k) == SelectSeq(d, LAMBDA e : e.key # k)

LowercasePair(name, opt) ==
  <<"o","p","t","i","o","n","s","[">> \o name \o <<"]","[">> \o opt.key \o <<"]","=">>
    \o (IF opt.val = True THEN <<"t","r","u","e">> ELSE <<"f","a","l","s","e">>)

\* C12 as claimed: the query string query() requests holds, for every option
\* recorded on the builder, the pair options[name][optionName]=true or =false
\* with the boolean in lowercase.
C12_OptionsInLowercase ==
  [][(call'.op = "query" /\ Len(requests') = Len(requests) + 1)
       => \A i \in 1..Len(options) : \A j \in 1..Len(options[i].val) :
             LowercasePair(options[i].key, options[i].val[j])
               \in Range(QueryPairs(requests'[Len(requests')]))]_vars

(***************************************************************************)
(* Accumulation                                                            *)
(***************************************************************************)

\* every key of the dict d is a key of the dict e
KeysKept(d, e) == \A i \in 1..Len(d) : HasKey(e, d[i].key)

\* C13: no call removes a key from params, from options or from the options of
\* one parameter; query() leaves params and options as they were; and a query()
\* that follows a query() which sent its request sends the same URL again.
C13_AccumulatesAndQueryKeeps ==
  [][/\ KeysKept(params, params')
     /\ KeysKept(options, options')
     /\ \A i \in 1..Len(options) :
           KeysKept(options[i].val, Get(options', options[i].key))
     /\ call'.op = "query" => (params' = params /\ options' = options)
     /\ (call.op = "query" /\ ret # InvalidQueryState /\ call'.op = "query")
          => /\ Len(requests') = Len(requests) + 1
             /\ requests'[Len(requests')] = requests[Len(requests)]]_vars

\* query() was called twice in a row on a builder that holds two parameters and
\* an option, and sent the same URL twice
C13_Witness ==
  /\ call.op = "query"
  /\ Len(requests) = 2
  /\ requests[1] = requests[2]
  /\ Len(params) = 2
  /\ Len(options) = 1
  /\ ncalls = 4

(***************************************************************************)
(* point                                                                   *)
(***************************************************************************)

\* a coordinate given as a number
IsNumber(v) == v.t \in {"int", "float"}

\* str(float(v)) of a number that is not negative
NumberText(v) ==
  IF v.t = "int" THEN FloatText(v)
  ELSE NatStr(v.x \div 10) \o <<".">> \o NatStr(v.x % 10)

\* C14 as claimed, for coordinates given as numbers: point(lon, lat) returns the
\* builder and point is stored as "lon,lat", a coordinate of 0 included.
C14_PointStoresEveryNumber ==
  (call.op = "point" /\ IsNumber(call.args[1]) /\ IsNumber(call.args[2]))
    => /\ ret = Return("self")
       /\ HasKey(params, k_point)
       /\ Get(params, k_point)
            = PyStr(NumberText(call.args[1]) \o <<",">> \o NumberText(call.args[2]))

====
